---- MODULE Spec2Model ----
(***************************************************************************)
(* ContextOS frontend: the settings module (ui/lib/settings.ts) and the    *)
(* API helper module built on it.                                          *)
(*                                                                         *)
(* Strings that the code trims (URLs) are sequences of one-character       *)
(* strings, so that trim() is computed and not assumed.  API keys are      *)
(* opaque strings; "" is the empty (falsy) key.                            *)
(*                                                                         *)
(* Every async function is split at its first await (the fetch): the       *)
(* "call" step runs the synchronous prefix and issues the request, the     *)
(* "resume" step runs everything after the response arrives.  The second   *)
(* await of each function (response.json() / response.text()) touches no   *)
(* shared state between its two halves, so it is folded into the resume    *)
(* step.  Calls suspended at their fetch resume in any order.              *)
(*                                                                         *)
(* An exception raised by localStorage (storage denied for the origin) is  *)
(* a property of the browsing context: storageThrows is chosen in Init.    *)
(***************************************************************************)
EXTENDS Naturals, Sequences, FiniteSets, Bags

VARIABLES
    hasWindow,      \* typeof window !== 'undefined'
    storageThrows,  \* access to localStorage raises
    localStorage,   \* value under SERVER_URL_KEY, or NoItem
    settingsCache,  \* module variable settingsCache
    calls,          \* bag of the async calls suspended at their fetch
    last            \* the step just taken: operation, argument, outcome

vars == <<hasWindow, storageThrows, localStorage, settingsCache, calls, last>>

----------------------------------------------------------------------------
(* Bounds *)

\* async calls that may be suspended at the same time
MaxInFlight == 2

----------------------------------------------------------------------------
(* Values *)

Sp == " "

\* strings offered as stored values and as updates.serverUrl
UrlStrings ==
    {<<>>, <<Sp>>, <<Sp, "a", Sp, "b", Sp>>}

DEFAULT_SERVER_URL == <<"d">>
SERVER_URL_KEY == "contextos_server_url"

\* localStorage.getItem returns null for a missing key
NoItem == <<"null">>
\* an absent property of the updates object
UndefUrl == <<"undefined">>
\* a serverUrl property a backend may put in its response
BackendUrl == <<"e">>

Undef == "undefined"

Null == [isNull |-> TRUE]
Nothing == [nothing |-> TRUE]
NoRequest == [none |-> TRUE]

\* JS truthiness of an optional string
Truthy(k) == k # Undef /\ k # ""
\* a || b
Or(a, b) == IF Truthy(a) THEN a ELSE b

\* String.prototype.trim
RECURSIVE TrimStart(_)
TrimStart(s) ==
    IF s = <<>> THEN s
    ELSE IF Head(s) = Sp THEN TrimStart(Tail(s)) ELSE s

RECURSIVE TrimEnd(_)
TrimEnd(s) ==
    IF s = <<>> THEN s
    ELSE IF s[Len(s)] = Sp THEN TrimEnd(SubSeq(s, 1, Len(s) - 1)) ELSE s

Trim(s) == TrimEnd(TrimStart(s))

----------------------------------------------------------------------------
(* settings.ts: storage access *)

\* mutant: the stored value is returned as it is, without trim()
getStoredServerUrlUntrimmed ==
    IF ~hasWindow THEN DEFAULT_SERVER_URL
    ELSE IF storageThrows THEN DEFAULT_SERVER_URL
    ELSE IF localStorage # NoItem /\ localStorage # <<>>
         THEN localStorage
         ELSE DEFAULT_SERVER_URL

getStoredServerUrl ==
    IF ~hasWindow THEN DEFAULT_SERVER_URL
    ELSE IF storageThrows THEN DEFAULT_SERVER_URL
    ELSE IF localStorage # NoItem /\ localStorage # <<>> /\ Trim(localStorage) # <<>>
         THEN Trim(localStorage)
         ELSE DEFAULT_SERVER_URL

\* value of the key after storeServerUrl(url)
storeServerUrl(url) ==
    IF ~hasWindow THEN localStorage
    ELSE IF storageThrows THEN localStorage
    ELSE Trim(url)

getBaseUrl == getStoredServerUrl

----------------------------------------------------------------------------
(* Backend responses *)

Unparsable == [json |-> "unparsable"]
JNull == [json |-> "null"]
JUndefined == [json |-> "undefined"]
\* a response object without a settings property
NoSettings == [absent |-> TRUE]

\* body of GET /api/settings
GetBodies ==
    {Unparsable, JNull} \cup
    [json : {"object"}, togetherApiKey : {Undef, "K1"}, groqApiKey : {"", "K1"},
     serverUrl : {BackendUrl}]

\* body of POST /api/settings
PostBodies ==
    {Unparsable, JNull} \cup
    {[json |-> "object", settings |-> NoSettings]} \cup
    [json : {"object"},
     settings : [togetherApiKey : {Undef, "K1"}, groqApiKey : {"", "K1"},
                 serverUrl : {BackendUrl}]]

\* fetch rejects; response.ok is false (the settings functions read no body then)
Rejected == [status |-> "throws", body |-> Unparsable]
NotOk == [status |-> "not_ok", body |-> Unparsable]

SettingsResponses(bodies) == {Rejected, NotOk} \cup [status : {"ok"}, body : bodies]

ResponseClass(r) == [status |-> r.status, json |-> r.body.json]

----------------------------------------------------------------------------
(* Steps and suspended calls *)

Step(op, outcome, arg, ret, request) ==
    [op |-> op, outcome |-> outcome, arg |-> arg, ret |-> ret, request |-> request]

Request(method, base, path) == [method |-> method, base |-> base, path |-> path]

CanSuspend == BagCardinality(calls) < MaxInFlight
Suspend(frame) == calls (+) SetToBag({frame})
Resume(frame) == calls (-) SetToBag({frame})

Init ==
    /\ hasWindow \in BOOLEAN
    /\ storageThrows \in (IF hasWindow THEN BOOLEAN ELSE {FALSE})
    /\ localStorage \in (IF hasWindow THEN UrlStrings \cup {NoItem} ELSE {NoItem})
    /\ settingsCache = Null
    /\ calls = EmptyBag
    /\ last = Step("init", "returned", Nothing, Nothing, NoRequest)

----------------------------------------------------------------------------
(* settings.ts: loadSettings *)

loadSettingsCall ==
    /\ CanSuspend
    /\ LET serverUrl == getStoredServerUrl IN
       /\ calls' = Suspend([fn |-> "loadSettings", url |-> serverUrl])
       /\ last' = Step("loadSettings", "pending", Nothing, Nothing,
                       Request("GET", serverUrl, "/api/settings"))
    /\ UNCHANGED <<hasWindow, storageThrows, localStorage, settingsCache>>

\* the try block runs to its end
LoadSucceeds(r) == r.status = "ok" /\ r.body.json = "object"

LoadMerge(body, serverUrl) ==
    [togetherApiKey |-> Or(body.togetherApiKey, ""),
     groqApiKey |-> Or(body.groqApiKey, ""),
     serverUrl |-> serverUrl]

\* mutant: the catch block answers from the cache when there is one
LoadFallbackFromCache ==
    IF settingsCache # Null THEN settingsCache
    ELSE [togetherApiKey |-> "", groqApiKey |-> "", serverUrl |-> getStoredServerUrl]

\* the value the catch block returns
LoadFallback ==
    [togetherApiKey |-> "", groqApiKey |-> "", serverUrl |-> getStoredServerUrl]

\* the cache after the catch block
LoadFailureCache == settingsCache

loadSettingsResume(call, r) ==
    /\ call.fn = "loadSettings"
    /\ calls' = Resume(call)
    /\ IF LoadSucceeds(r)
       THEN /\ settingsCache' = LoadMerge(r.body, call.url)
            /\ last' = Step("loadSettings", "returned", ResponseClass(r),
                            settingsCache', NoRequest)
       ELSE /\ settingsCache' = LoadFailureCache
            /\ last' = Step("loadSettings", "returned", ResponseClass(r),
                            LoadFallback, NoRequest)
    /\ UNCHANGED <<hasWindow, storageThrows, localStorage>>

----------------------------------------------------------------------------
(* settings.ts: saveSettings *)

\* the key fields of an update: none, or clear one key and set the other
KeyUpdates ==
    {[togetherApiKey |-> Undef, groqApiKey |-> Undef],
     [togetherApiKey |-> "", groqApiKey |-> "K1"]}

Updates ==
    {[serverUrl |-> u, togetherApiKey |-> k.togetherApiKey, groqApiKey |-> k.groqApiKey] :
        u \in UrlStrings \cup {UndefUrl}, k \in KeyUpdates}

\* updates that change the server URL only
UrlUpdates == {u \in Updates : u.togetherApiKey = Undef /\ u.groqApiKey = Undef}

\* mutant: the new URL is used as typed
SaveTargetUntrimmed(updates) ==
    IF updates.serverUrl # UndefUrl
    THEN IF updates.serverUrl # <<>> THEN updates.serverUrl ELSE DEFAULT_SERVER_URL
    ELSE getStoredServerUrl

SaveTarget(updates) ==
    IF updates.serverUrl # UndefUrl
    THEN IF Trim(updates.serverUrl) # <<>> THEN Trim(updates.serverUrl)
         ELSE DEFAULT_SERVER_URL
    ELSE getStoredServerUrl

SaveStorage(updates) ==
    IF updates.serverUrl # UndefUrl
    THEN storeServerUrl(SaveTarget(updates))
    ELSE localStorage

saveSettingsCall(updates) ==
    /\ CanSuspend
    /\ LET targetUrl == SaveTarget(updates) IN
       /\ localStorage' = SaveStorage(updates)
       /\ calls' = Suspend([fn |-> "saveSettings", url |-> targetUrl,
                            togetherApiKey |-> updates.togetherApiKey,
                            groqApiKey |-> updates.groqApiKey])
       /\ last' = Step("saveSettings", "pending", [serverUrl |-> updates.serverUrl],
                       Nothing, Request("POST", targetUrl, "/api/settings"))
    /\ UNCHANGED <<hasWindow, storageThrows, settingsCache>>

\* the try block runs to its end (result.settings of a null result throws)
SaveSucceeds(r) == r.status = "ok" /\ r.body.json = "object"

\* result.settings?.k
SettingsField(body, k) ==
    IF body.settings = NoSettings THEN Undef ELSE body.settings[k]
\* settingsCache?.k
CacheField(k) ==
    IF settingsCache = Null THEN Undef ELSE settingsCache[k]

SaveKey(body, call, k) ==
    Or(Or(Or(SettingsField(body, k), call[k]), CacheField(k)), "")

SaveMerge(body, call) ==
    [togetherApiKey |-> SaveKey(body, call, "togetherApiKey"),
     groqApiKey |-> SaveKey(body, call, "groqApiKey"),
     serverUrl |-> call.url]

\* mutant: a failed save invalidates the cache
SaveFailureClearsCache == Null

\* the cache after the catch block, which rethrows
SaveFailureCache == settingsCache

saveSettingsResume(call, r) ==
    /\ call.fn = "saveSettings"
    /\ calls' = Resume(call)
    /\ IF SaveSucceeds(r)
       THEN /\ settingsCache' = SaveMerge(r.body, call)
            /\ last' = Step("saveSettings", "returned", ResponseClass(r),
                            settingsCache', NoRequest)
       ELSE /\ settingsCache' = SaveFailureCache
            /\ last' = Step("saveSettings", "raised", ResponseClass(r),
                            Nothing, NoRequest)
    /\ UNCHANGED <<hasWindow, storageThrows, localStorage>>

----------------------------------------------------------------------------
(* settings.ts: synchronous operations *)

getBaseUrlCall ==
    /\ last' = Step("getBaseUrl", "returned", Nothing, [url |-> getBaseUrl], NoRequest)
    /\ UNCHANGED <<hasWindow, storageThrows, localStorage, settingsCache, calls>>

clearSettingsCache ==
    /\ settingsCache' = Null
    /\ last' = Step("clearSettingsCache", "returned", Nothing, Nothing, NoRequest)
    /\ UNCHANGED <<hasWindow, storageThrows, localStorage, calls>>

getCachedSettings ==
    /\ last' = Step("getCachedSettings", "returned", Nothing, settingsCache, NoRequest)
    /\ UNCHANGED <<hasWindow, storageThrows, localStorage, settingsCache, calls>>

\* localStorage.removeItem is outside any try block: a storage exception
\* leaves resetServerUrl before it reaches settingsCache = null
ResetRaises == hasWindow /\ storageThrows

resetServerUrl ==
    /\ localStorage' = IF hasWindow /\ ~ResetRaises THEN NoItem ELSE localStorage
    /\ settingsCache' = IF ResetRaises THEN settingsCache ELSE Null
    /\ last' = Step("resetServerUrl", IF ResetRaises THEN "raised" ELSE "returned",
                    Nothing, Nothing, NoRequest)
    /\ UNCHANGED <<hasWindow, storageThrows, calls>>

----------------------------------------------------------------------------
(* API helper module *)

ApiFns ==
    {"captureContext", "getDailyPlan", "getTodayPlan", "generateDailyPlan",
     "getAvailableDates", "generateMissingPlans", "toggleTaskCompletion"}

ApiMethod(fn) ==
    CASE fn \in {"captureContext", "generateDailyPlan", "generateMissingPlans"} -> "POST"
      [] fn = "toggleTaskCompletion" -> "PATCH"
      [] OTHER -> "GET"

ApiPath(fn) ==
    CASE fn = "captureContext" -> "/api/context"
      [] fn \in {"getDailyPlan", "getTodayPlan"} -> "/api/daily-plan?date="
      [] fn = "generateDailyPlan" -> "/api/daily-plan/generate?date="
      [] fn = "getAvailableDates" -> "/api/daily-plan/available-dates"
      [] fn = "generateMissingPlans" -> "/api/daily-plan/generate-missing"
      [] OTHER -> "/api/tasks/"

\* mutant: the URL is taken from the settings cache when it is loaded
getBackendUrlFromCache ==
    IF ~hasWindow THEN DEFAULT_SERVER_URL
    ELSE IF settingsCache # Null THEN settingsCache.serverUrl ELSE getBaseUrl

getBackendUrl ==
    IF ~hasWindow THEN DEFAULT_SERVER_URL ELSE getBaseUrl

PlanValue == [json |-> "plan"]

\* JSON bodies of the planner endpoints
ApiBodies ==
    {Unparsable, JNull} \cup
    {[json |-> "object", ok |-> TRUE, plan |-> PlanValue, error |-> Undef],
     [json |-> "object", ok |-> TRUE, plan |-> JUndefined, error |-> Undef],
     [json |-> "object", ok |-> FALSE, plan |-> PlanValue, error |-> Undef],
     [json |-> "object", ok |-> FALSE, plan |-> JUndefined, error |-> "boom"]}

ApiResponses == {Rejected} \cup [status : {"ok", "not_ok"}, body : ApiBodies]

NetworkError == [json |-> "object", ok |-> FALSE, error |-> "Network error"]

captureContextResult(r) ==
    IF r.status = "throws" THEN NetworkError
    ELSE IF r.status = "not_ok"
         THEN IF r.body.json = "object"
              THEN [json |-> "object", ok |-> FALSE,
                    error |-> Or(r.body.error, "Failed to capture context")]
              ELSE NetworkError
         ELSE IF r.body = Unparsable THEN NetworkError ELSE r.body

\* mutant: response.ok is not looked at
PayloadResultUnchecked(r) ==
    IF r.status = "throws" THEN JNull
    ELSE IF r.body = Unparsable THEN JNull ELSE r.body

\* getDailyPlan, getTodayPlan, getAvailableDates, generateMissingPlans
PayloadResult(r) ==
    IF r.status = "throws" THEN JNull
    ELSE IF r.status = "not_ok" THEN JNull
         ELSE IF r.body = Unparsable THEN JNull ELSE r.body

\* generateDailyPlan, toggleTaskCompletion: data.ok ? data.plan : null
PlanResult(r) ==
    IF r.status = "throws" THEN JNull
    ELSE IF r.status = "not_ok" THEN JNull
         ELSE IF r.body.json # "object" THEN JNull
              ELSE IF r.body.ok THEN r.body.plan ELSE JNull

ApiResult(fn, r) ==
    CASE fn = "captureContext" -> captureContextResult(r)
      [] fn \in {"generateDailyPlan", "toggleTaskCompletion"} -> PlanResult(r)
      [] OTHER -> PayloadResult(r)

apiCall(fn) ==
    /\ CanSuspend
    /\ LET backendUrl == getBackendUrl IN
       /\ calls' = Suspend([fn |-> fn, url |-> backendUrl])
       /\ last' = Step(fn, "pending", Nothing, Nothing,
                       Request(ApiMethod(fn), backendUrl, ApiPath(fn)))
    /\ UNCHANGED <<hasWindow, storageThrows, localStorage, settingsCache>>

apiResume(call, r) ==
    /\ call.fn \in ApiFns
    /\ calls' = Resume(call)
    /\ last' = Step(call.fn, "returned", ResponseClass(r), ApiResult(call.fn, r), NoRequest)
    /\ UNCHANGED <<hasWindow, storageThrows, localStorage, settingsCache>>

refreshApiSettings ==
    /\ settingsCache' = Null
    /\ last' = Step("refreshApiSettings", "returned", Nothing, Nothing, NoRequest)
    /\ UNCHANGED <<hasWindow, storageThrows, localStorage, calls>>

----------------------------------------------------------------------------
(* Specifications *)

\* the settings module under every interleaving of its operations
Next ==
    \/ loadSettingsCall
    \/ \E c \in BagToSet(calls), r \in SettingsResponses(GetBodies) : loadSettingsResume(c, r)
    \/ \E u \in Updates : saveSettingsCall(u)
    \/ \E c \in BagToSet(calls), r \in SettingsResponses(PostBodies) : saveSettingsResume(c, r)
    \/ getBaseUrlCall
    \/ clearSettingsCache
    \/ getCachedSettings
    \/ resetServerUrl

Spec == Init /\ [][Next]_vars

\* a settings response as far as the API helpers can tell: failure or success
SomeBody(bodies) == CHOOSE b \in bodies : b.json = "object"
CoarseResponses(bodies) == {Rejected, NotOk, [status |-> "ok", body |-> SomeBody(bodies)]}

\* the API helpers, interleaved with the operations that move the server URL
\* or touch the cache
ApiNext ==
    \/ \E fn \in ApiFns : apiCall(fn)
    \/ \E c \in BagToSet(calls), r \in ApiResponses : apiResume(c, r)
    \/ refreshApiSettings
    \/ \E u \in UrlUpdates : saveSettingsCall(u)
    \/ \E c \in BagToSet(calls), r \in CoarseResponses(PostBodies) : saveSettingsResume(c, r)
    \/ resetServerUrl

ApiSpec == Init /\ [][ApiNext]_vars

----------------------------------------------------------------------------
(* Properties *)

\* localStorage can be read and written
StorageWorks == hasWindow /\ ~storageThrows

Blank(s) == \A i \in 1..Len(s) : s[i] = Sp

\* t is s without its leading and trailing spaces
IsTrimOf(t, s) ==
    \E i \in 1..(Len(s) + 1) : \E j \in (i - 1)..Len(s) :
        /\ t = SubSeq(s, i, j)
        /\ \A k \in 1..(i - 1) : s[k] = Sp
        /\ \A k \in (j + 1)..Len(s) : s[k] = Sp
        /\ t # <<>> => (t[1] # Sp /\ t[Len(t)] # Sp)

\* u is what a typed URL stands for: the text without surrounding spaces, the
\* default URL for a blank text
Normalizes(u, typed) ==
    IF Blank(typed) THEN u = DEFAULT_SERVER_URL ELSE IsTrimOf(u, typed)

\* u is the server URL the storage stands for: the stored text without
\* surrounding spaces; the default when the key is missing or blank or the
\* storage cannot be read
Persisted(u) ==
    IF StorageWorks /\ localStorage # NoItem THEN Normalizes(u, localStorage)
    ELSE u = DEFAULT_SERVER_URL

Quiescent == calls = EmptyBag

FailureClass(c) == c.status # "ok" \/ c.json # "object"

IsSettings(v) == DOMAIN v = {"togetherApiKey", "groqApiKey", "serverUrl"}

SaveCallStep == last'.op = "saveSettings" /\ last'.outcome = "pending"
SaveUrlStep == SaveCallStep /\ last'.arg.serverUrl # UndefUrl
SaveNoUrlStep == SaveCallStep /\ last'.arg.serverUrl = UndefUrl
SaveResumeStep == last'.op = "saveSettings" /\ last'.outcome # "pending"
ResetStep == last'.op = "resetServerUrl"
ApiCallStep == last'.op \in ApiFns /\ last'.outcome = "pending"
ApiResumeStep == last'.op \in ApiFns /\ last'.outcome # "pending"

\* C1 (as claimed): whenever the cache is loaded, its serverUrl is the URL
\* the storage stands for. Stated for the states most favourable to the
\* claim: a browser whose storage works and no call in flight.
C1_CacheUrlIsPersisted ==
    (StorageWorks /\ Quiescent /\ settingsCache # Null)
        => Persisted(settingsCache.serverUrl)

SavePersists(context) ==
    context =>
        /\ SaveUrlStep =>
            /\ Normalizes(localStorage', last'.arg.serverUrl)
            /\ last'.request.base = localStorage'
            /\ getBaseUrl' = localStorage'
        /\ SaveNoUrlStep =>
            /\ localStorage' = localStorage
            /\ last'.request.base = getBaseUrl
        /\ (~SaveUrlStep /\ ~ResetStep) => getBaseUrl' = getBaseUrl

\* C2 (as claimed): in a browser, saveSettings with a serverUrl stores the
\* trimmed URL (the default for a blank one) in the step that issues the
\* request, the request goes to that URL, and getBaseUrl answers it until
\* the next saveSettings with a serverUrl or resetServerUrl, whatever the
\* backend answers; without a serverUrl the storage is left alone and the
\* request goes to the URL getBaseUrl answers.
C2_SavePersistsUrl == [][SavePersists(hasWindow)]_vars

\* C2 (amended): the same, in a browser whose localStorage does not throw.
C2_SavePersistsUrlWhenStorageWorks == [][SavePersists(StorageWorks)]_vars

\* C2 witness: a save has just stored and targeted the trimmed form of a
\* URL typed with surrounding spaces
C2_Witness ==
    /\ StorageWorks
    /\ last.op = "saveSettings" /\ last.outcome = "pending"
    /\ last.arg.serverUrl = <<Sp, "a", Sp, "b", Sp>>
    /\ localStorage = <<"a", Sp, "b">>
    /\ last.request.base = <<"a", Sp, "b">>

\* C3: loadSettings always returns a Settings value, never raises; when the
\* request is rejected, the status is not a success or the body cannot be
\* used, the value has both keys empty and the URL the storage stands for.
C3_LoadNeverRaises ==
    (last.op = "loadSettings" /\ last.outcome # "pending") =>
        /\ last.outcome = "returned"
        /\ IsSettings(last.ret)
        /\ FailureClass(last.arg) =>
            /\ last.ret.togetherApiKey = ""
            /\ last.ret.groqApiKey = ""
            /\ Persisted(last.ret.serverUrl)

\* C3 witness: a load failed while the cache held keys and a URL was stored
C3_Witness ==
    /\ last.op = "loadSettings" /\ last.outcome = "returned"
    /\ last.arg.status = "not_ok"
    /\ settingsCache # Null /\ settingsCache.groqApiKey = "K1"
    /\ last.ret.serverUrl = <<"a", Sp, "b">>

\* C4: a saveSettings whose request is rejected, answered with a
\* non-success status or an unusable body raises, and no step of it writes
\* the cache; the call step of any save leaves the cache alone.
C4_SaveFailurePropagates ==
    [][/\ SaveCallStep => settingsCache' = settingsCache
       /\ (SaveResumeStep /\ FailureClass(last'.arg)) =>
            /\ last'.outcome = "raised"
            /\ settingsCache' = settingsCache
       /\ (SaveResumeStep /\ ~FailureClass(last'.arg)) => last'.outcome = "returned"
      ]_vars

\* C4 witness: a save has raised and the cache still holds settings
C4_Witness ==
    /\ last.op = "saveSettings" /\ last.outcome = "raised"
    /\ last.arg.status = "not_ok"
    /\ settingsCache # Null

IsCaptureFailure(v) ==
    /\ DOMAIN v = {"json", "ok", "error"}
    /\ v.ok = FALSE

\* C5: no API helper raises; on a rejected request and on a non-success
\* status captureContext returns an object with ok = false and the others
\* return null, never a plan or a payload.
C5_ApiNeverRaises ==
    (last.op \in ApiFns /\ last.outcome # "pending") =>
        /\ last.outcome = "returned"
        /\ last.arg.status # "ok" =>
            IF last.op = "captureContext" THEN IsCaptureFailure(last.ret)
            ELSE last.ret = JNull

\* C5 witness: a helper was answered with a non-success status whose body
\* carried a plan
C5_Witness ==
    /\ last.op = "getDailyPlan" /\ last.outcome = "returned"
    /\ last.arg = [status |-> "not_ok", json |-> "object"]
    /\ last.ret = JNull

ResponseKey(body, k) == Or(SettingsField(body, k), "")

\* C6 (as claimed): after a successful saveSettings both cached keys are
\* the keys of the response's settings object, empty when it has none,
\* whatever the cache held before. Stated for the saves most favourable to
\* the claim: a browser whose storage works, and updates that carry no key.
C6_SavedKeysAreTheResponseKeys ==
    [][\A c \in BagToSet(calls), r \in SettingsResponses(PostBodies) :
          (/\ StorageWorks
           /\ saveSettingsResume(c, r) /\ SaveSucceeds(r)
           /\ c.togetherApiKey = Undef /\ c.groqApiKey = Undef) =>
              /\ settingsCache'.togetherApiKey = ResponseKey(r.body, "togetherApiKey")
              /\ settingsCache'.groqApiKey = ResponseKey(r.body, "groqApiKey")
      ]_vars

\* C7 (as claimed): right after clearSettingsCache and right after
\* resetServerUrl the cache is null.
C7_ClearAndResetEmptyTheCache ==
    (last.op \in {"clearSettingsCache", "resetServerUrl"}) => settingsCache = Null

TargetsStoredUrl(context) ==
    /\ ApiCallStep =>
        /\ last'.request # NoRequest
        /\ last'.request.base = getBackendUrl
        /\ Persisted(last'.request.base)
    /\ ApiResumeStep => last'.request = NoRequest
    /\ context =>
        /\ SaveUrlStep => Normalizes(getBackendUrl', last'.arg.serverUrl)
        /\ ResetStep => getBackendUrl' = DEFAULT_SERVER_URL
        /\ (~SaveUrlStep /\ ~ResetStep) => getBackendUrl' = getBackendUrl

\* C8 (as claimed): an API helper issues one request, in its call step, to
\* the URL the storage stands for at that moment; in a browser, a
\* saveSettings with a serverUrl makes that URL the target of the helpers, a
\* resetServerUrl makes the default the target, and no other step changes
\* the target.
C8_ApiTargetsLastSetUrl == [][TargetsStoredUrl(hasWindow)]_vars

\* C8 (amended): the same, the effect of saveSettings being claimed only in
\* a browser whose localStorage does not throw.
C8_ApiTargetsStoredUrl == [][TargetsStoredUrl(StorageWorks)]_vars

\* C8 witness: a helper has just sent its request to the stored URL while
\* the cache names another server
C8_Witness ==
    /\ StorageWorks
    /\ last.op \in ApiFns /\ last.outcome = "pending"
    /\ settingsCache # Null
    /\ settingsCache.serverUrl # last.request.base
    /\ last.request.base = <<"a", Sp, "b">>

\* C9: getBaseUrl returns the stored text without surrounding spaces, and
\* the default URL when the key is missing, empty or blank, when the storage
\* throws and when there is no window; right after resetServerUrl it
\* answers the default.
C9_BaseUrlIsTrimmedOrDefault ==
    /\ last.op = "getBaseUrl" =>
        /\ last.outcome = "returned"
        /\ Persisted(last.ret.url)
    /\ last.op = "resetServerUrl" => getBaseUrl = DEFAULT_SERVER_URL

\* C9 witness: getBaseUrl answered the trimmed form of a stored text that
\* has surrounding spaces
C9_Witness ==
    /\ last.op = "getBaseUrl"
    /\ localStorage = <<Sp, "a", Sp, "b", Sp>>
    /\ last.ret.url = <<"a", Sp, "b">>

\* what one save contributes by itself: its response, its updates, its URL
OwnMerge(body, call) ==
    [togetherApiKey |-> Or(Or(SettingsField(body, "togetherApiKey"), call.togetherApiKey), ""),
     groqApiKey |-> Or(Or(SettingsField(body, "groqApiKey"), call.groqApiKey), ""),
     serverUrl |-> call.url]

\* C10 (as claimed): every value written to the cache is the merge made
\* from one call's own data (its response, its arguments, its URL), so the
\* cache holds what the call that resumed last wrote and never fields of two
\* calls.
C10_CacheHoldsOneCallsMerge ==
    [][/\ \A c \in BagToSet(calls), r \in SettingsResponses(PostBodies) :
            (saveSettingsResume(c, r) /\ SaveSucceeds(r)) =>
                settingsCache' = OwnMerge(r.body, c)
       /\ \A c \in BagToSet(calls), r \in SettingsResponses(GetBodies) :
            (loadSettingsResume(c, r) /\ LoadSucceeds(r)) =>
                settingsCache' = LoadMerge(r.body, c.url)
      ]_vars

====
